---- MODULE Spec2Model ----
(***************************************************************************)
(* The CoNLL-U lexer of colonel (colonel/conllu/lexer.py): a PLY lexer     *)
(* whose exclusive states v0..v9 / c1..c9 encode the column being read.    *)
(*                                                                         *)
(* Text is a sequence of one-character strings; offsets are 0-based as in  *)
(* Python (the character at offset p of s is s[p + 1]).  A matcher returns *)
(* the offset just after the text it matches at p, or -1 when it does not  *)
(* match; it follows Python's `re` (ordered alternation, greedy            *)
(* quantifiers, backtracking), which is what PLY compiles the rules with.  *)
(***************************************************************************)
EXTENDS Integers, Sequences, FiniteSets, TLC

VARIABLES lexdata, lexpos, lexstate, lineno, tab_count, tokens, outcome, error, nraised,
          element

\* The lexer: its text, PLY's cursor, state and line number, the builder's tab
\* counter, and what the caller has received from it.
lexer == <<lexdata, lexpos, lexstate, lineno, tab_count, tokens, outcome, error, nraised>>

vars == <<lexer, element>>

-----------------------------------------------------------------------------
(* Bounds of the model *)

\* Free text pieces appended after a well-formed prefix of the document.
MaxTail == 2

\* Exceptions a caller lets one lexer instance raise before giving up on it.
MaxRaise == 2

-----------------------------------------------------------------------------
(* Character classes *)

TABC == "\t"
NL == "\n"
SP == " "

Digits == {"0", "1", "2", "3", "4", "5", "6", "7", "8", "9"}
NonZero == Digits \ {"0"}
Upper == {"A", "B", "C", "D", "E", "F", "G", "H", "I", "J", "K", "L", "M",
          "N", "O", "P", "Q", "R", "S", "T", "U", "V", "W", "X", "Y", "Z"}
Lower == {"a", "b", "c", "d", "e", "f", "g", "h", "i", "j", "k", "l", "m",
          "n", "o", "p", "q", "r", "s", "t", "u", "v", "w", "x", "y", "z"}

\* The character at offset p, or "" at and after the end of the text.
At(s, p) == IF p >= 0 /\ p < Len(s) THEN s[p + 1] ELSE ""

\* s[a:b] of Python.
Slice(s, a, b) == SubSeq(s, a + 1, b)

\* Offset after the longest run, from p, of characters in set C.
RECURSIVE RunIn(_, _, _)
RunIn(s, p, C) == IF At(s, p) \in C THEN RunIn(s, p + 1, C) ELSE p

\* Offset after the longest run, from p, of characters not in set X.
RECURSIVE RunNotIn(_, _, _)
RunNotIn(s, p, X) ==
    IF p < Len(s) /\ At(s, p) \notin X THEN RunNotIn(s, p + 1, X) ELSE p

\* A character class applied once or more: [C]+ / [^X]+.
Plus(e, p) == IF e > p THEN e ELSE -1

\* A literal character.
Lit(s, p, c) == IF At(s, p) = c THEN p + 1 ELSE -1

-----------------------------------------------------------------------------
(* Pattern library: lexer.py lines 83-111, and the rules' own patterns *)

\* [1-9][0-9]*
PosInt(s, p) == IF At(s, p) \in NonZero THEN RunIn(s, p + 1, Digits) ELSE -1

\* ([1-9][0-9]+|[0-9]) followed by the literal `next`: the first alternative
\* takes the whole digit run (a shorter one leaves a digit before `next`), the
\* second one digit.  Returns the offset after the head, or -1.
HeadBefore(s, p, next) ==
    LET e == RunIn(s, p, Digits)
    IN  IF At(s, p) \in NonZero /\ e >= p + 2 /\ At(s, e) = next THEN e
        ELSE IF At(s, p) \in Digits /\ At(s, p + 1) = next THEN p + 1
        ELSE -1

\* ([1-9][0-9]+|[0-9]) with nothing required after it.
dep_head(s, p) ==
    LET e == RunIn(s, p, Digits)
    IN  IF At(s, p) \in NonZero /\ e >= p + 2 THEN e
        ELSE IF At(s, p) \in Digits THEN p + 1
        ELSE -1

\* [^\n\t ]+
dep_deprel(s, p) == Plus(RunNotIn(s, p, {NL, TABC, SP}), p)

\* {head}:{deprel}
dep_pair(s, p) ==
    LET h == HeadBefore(s, p, ":")
    IN  IF h < 0 THEN -1 ELSE dep_deprel(s, h + 1)

\* ([|]{pair})* after offset p: greedy, an iteration that fails is dropped.
RECURSIVE dep_more(_, _)
dep_more(s, p) ==
    IF At(s, p) = "|" /\ dep_pair(s, p + 1) >= 0
    THEN dep_more(s, dep_pair(s, p + 1))
    ELSE p

\* ({pair}([|]{pair})*)|_
deps(s, p) ==
    IF dep_pair(s, p) >= 0 THEN dep_more(s, dep_pair(s, p)) ELSE Lit(s, p, "_")

\* [A-Z0-9][A-Z0-9a-z]*(\[[a-z0-9]+\])?
feat_name(s, p) ==
    IF At(s, p) \notin (Upper \cup Digits) THEN -1
    ELSE LET e == RunIn(s, p + 1, Upper \cup Digits \cup Lower)
             b == RunIn(s, e + 1, Lower \cup Digits)
         IN  IF At(s, e) = "[" /\ b > e + 1 /\ At(s, b) = "]" THEN b + 1 ELSE e

\* The name as the pair needs it: `=` must follow, so the optional bracket
\* group is given up when `=` does not follow it.
feat_name_eq(s, p) ==
    IF At(s, p) \notin (Upper \cup Digits) THEN -1
    ELSE LET e == RunIn(s, p + 1, Upper \cup Digits \cup Lower)
             w == feat_name(s, p)
         IN  IF At(s, w) = "=" THEN w
             ELSE IF At(s, e) = "=" THEN e
             ELSE -1

\* [A-Z0-9][a-zA-Z0-9]*
feat_value(s, p) ==
    IF At(s, p) \in (Upper \cup Digits)
    THEN RunIn(s, p + 1, Upper \cup Digits \cup Lower)
    ELSE -1

\* (,{value})* after offset p.
RECURSIVE feat_values_more(_, _)
feat_values_more(s, p) ==
    IF At(s, p) = "," /\ feat_value(s, p + 1) >= 0
    THEN feat_values_more(s, feat_value(s, p + 1))
    ELSE p

\* {value}(,{value})*
feat_values(s, p) ==
    IF feat_value(s, p) >= 0 THEN feat_values_more(s, feat_value(s, p)) ELSE -1

\* {name}={values}
feat_pair(s, p) ==
    LET n == feat_name_eq(s, p)
    IN  IF n < 0 THEN -1 ELSE feat_values(s, n + 1)

\* ([|]{pair})* after offset p.
RECURSIVE feat_more(_, _)
feat_more(s, p) ==
    IF At(s, p) = "|" /\ feat_pair(s, p + 1) >= 0
    THEN feat_more(s, feat_pair(s, p + 1))
    ELSE p

\* ({pair}([|]{pair})*)|_
feats(s, p) ==
    IF feat_pair(s, p) >= 0 THEN feat_more(s, feat_pair(s, p)) ELSE Lit(s, p, "_")

\* The tag registry the lexer is built with (colonel.upostag.UposTag), in its
\* declaration order: the names of the Universal POS tags.
UposTag ==
    << <<"A","D","J">>, <<"A","D","P">>, <<"A","D","V">>, <<"A","U","X">>,
       <<"C","C","O","N","J">>, <<"D","E","T">>, <<"I","N","T","J">>,
       <<"N","O","U","N">>, <<"N","U","M">>, <<"P","A","R","T">>,
       <<"P","R","O","N">>, <<"P","R","O","P","N">>,
       <<"P","U","N","C","T">>, <<"S","C","O","N","J">>, <<"S","Y","M">>,
       <<"V","E","R","B">>, <<"X">> >>

\* Whether word w stands at offset p of s.
StartsWith(s, p, w) == p + Len(w) <= Len(s) /\ Slice(s, p, p + Len(w)) = w

\* (NAME1|NAME2|...|_): the first alternative, in order, that stands at p.
RECURSIVE FirstAlt(_, _, _, _)
FirstAlt(s, p, alts, i) ==
    IF i > Len(alts) THEN -1
    ELSE IF StartsWith(s, p, alts[i]) THEN p + Len(alts[i])
    ELSE FirstAlt(s, p, alts, i + 1)

upos(s, p) == FirstAlt(s, p, UposTag \o << <<"_">> >>, 1)

-----------------------------------------------------------------------------
(* Python helpers the rules' bodies use *)

\* x.index(c): the 0-based offset of the first c in x, or -1 (ValueError).
RECURSIVE IndexFrom(_, _, _)
IndexFrom(x, c, i) ==
    IF i >= Len(x) THEN -1
    ELSE IF At(x, i) = c THEN i
    ELSE IndexFrom(x, c, i + 1)

index(x, c) == IndexFrom(x, c, 0)

\* x.split(c): the pieces of x between the occurrences of c, in order.
RECURSIVE split(_, _)
split(x, c) ==
    LET i == index(x, c)
    IN  IF i < 0 THEN <<x>>
        ELSE <<Slice(x, 0, i)>> \o split(Slice(x, i + 1, Len(x)), c)

DigitVal(c) == CHOOSE n \in 0..9 : ToString(n) = c

\* int(x) accepts a run of digits, single underscores allowed between digits
\* (the alphabets of this model hold no sign and no other digit script).
IntOk(x) ==
    /\ Len(x) > 0
    /\ x[1] \in Digits
    /\ x[Len(x)] \in Digits
    /\ \A i \in 1..Len(x) : x[i] \in Digits \cup {"_"}
    /\ \A i \in 1..(Len(x) - 1) : ~(x[i] = "_" /\ x[i + 1] = "_")

RECURSIVE IntAcc(_, _, _)
IntAcc(x, i, acc) ==
    IF i > Len(x) THEN acc
    ELSE IF x[i] = "_" THEN IntAcc(x, i + 1, acc)
    ELSE IntAcc(x, i + 1, 10 * acc + DigitVal(x[i]))

int(x) == IntAcc(x, 1, 0)

Whitespace == {SP, TABC, NL}

\* x.strip()
RECURSIVE lstrip(_)
lstrip(x) == IF Len(x) > 0 /\ x[1] \in Whitespace THEN lstrip(Tail(x)) ELSE x

RECURSIVE rstrip(_)
rstrip(x) ==
    IF Len(x) > 0 /\ x[Len(x)] \in Whitespace
    THEN rstrip(SubSeq(x, 1, Len(x) - 1))
    ELSE x

strip(x) == rstrip(lstrip(x))

-----------------------------------------------------------------------------
(* Token values.  A value is None, a string, an integer, a tuple of         *)
(* integers, a tuple of (name, values) or a tuple of (head, deprel); one    *)
(* record shape holds them all.                                             *)

Value(tag, str, ints, fs, ds) ==
    [tag |-> tag, str |-> str, ints |-> ints, feats |-> fs, deps |-> ds]

None == Value("None", <<>>, <<>>, <<>>, <<>>)
StrV(x) == Value("str", x, <<>>, <<>>, <<>>)
IntV(n) == Value("int", <<>>, <<n>>, <<>>, <<>>)
IntsV(ns) == Value("tuple", <<>>, ns, <<>>, <<>>)
FeatsV(fs) == Value("feats", <<>>, <<>>, fs, <<>>)
DepsV(ds) == Value("deps", <<>>, <<>>, <<>>, ds)

\* What a rule's body does with the lexeme: a value, or an exception.
Ok(v) == [ok |-> TRUE, value |-> v]
Raise == [ok |-> FALSE, value |-> None]

-----------------------------------------------------------------------------
(* The rules' bodies: what each makes of its lexeme *)

\* tuple(map(int, parts))
RECURSIVE MapInt(_)
MapInt(parts) ==
    IF parts = <<>> THEN <<>> ELSE <<int(Head(parts))>> \o MapInt(Tail(parts))

IntTuple(parts) ==
    IF \A i \in 1..Len(parts) : IntOk(parts[i]) THEN Ok(IntsV(MapInt(parts)))
    ELSE Raise

\* None if value == '_' else f(value)
Nullable(v, other) == IF v = <<"_">> THEN Ok(None) ELSE other

\* decode_HEAD with the int() forgotten: the head stays a string.
decode_HEAD_raw(v) == Nullable(v, Ok(StrV(v)))

\* decode_COMMENT with the strip() forgotten.
decode_COMMENT_raw(v) == Ok(StrV(Slice(v, 1, Len(v))))

decode_COMMENT(v) == Ok(StrV(strip(Slice(v, 1, Len(v)))))

decode_RANGE_ID(v) == IntTuple(split(v, "-"))

decode_DECIMAL_ID(v) == IntTuple(split(v, "."))

decode_INTEGER_ID(v) == IF IntOk(v) THEN Ok(IntV(int(v))) ELSE Raise

\* decode_FORM with the null test of the nullable columns copied into it.
decode_FORM_nulled(v) == Nullable(v, Ok(StrV(v)))

decode_FORM(v) == Ok(StrV(v))

decode_LEMMA(v) == Ok(StrV(v))

decode_UPOS(v) == Nullable(v, Ok(StrV(v)))

decode_XPOS(v) == Nullable(v, Ok(StrV(v)))

\* (x[:x.index('=')], tuple(x[x.index('=')+1:].split(','))) for x in split('|')
FeatOf(x) ==
    [name |-> Slice(x, 0, index(x, "=")),
     values |-> split(Slice(x, index(x, "=") + 1, Len(x)), ",")]

RECURSIVE MapFeat(_)
MapFeat(xs) ==
    IF xs = <<>> THEN <<>> ELSE <<FeatOf(Head(xs))>> \o MapFeat(Tail(xs))

decode_FEATS(v) ==
    LET xs == split(v, "|")
    IN  Nullable(v, IF \A i \in 1..Len(xs) : index(xs[i], "=") >= 0
                    THEN Ok(FeatsV(MapFeat(xs)))
                    ELSE Raise)

decode_HEAD(v) == Nullable(v, IF IntOk(v) THEN Ok(IntV(int(v))) ELSE Raise)

decode_DEPREL(v) == Nullable(v, Ok(StrV(v)))

\* Where a head+deprel segment is cut.
DepCut(x) == index(x, ":")

\* (int(x[:x.index(':')]), x[x.index(':')+1:]) for x in split('|')
DepOf(x) ==
    [head |-> int(Slice(x, 0, DepCut(x))),
     deprel |-> Slice(x, DepCut(x) + 1, Len(x))]

RECURSIVE MapDep(_)
MapDep(xs) ==
    IF xs = <<>> THEN <<>> ELSE <<DepOf(Head(xs))>> \o MapDep(Tail(xs))

decode_DEPS(v) ==
    LET xs == split(v, "|")
    IN  Nullable(v, IF \A i \in 1..Len(xs) :
                          /\ index(xs[i], ":") >= 0
                          /\ IntOk(Slice(xs[i], 0, DepCut(xs[i])))
                    THEN Ok(DepsV(MapDep(xs)))
                    ELSE Raise)

decode_MISC(v) == Nullable(v, Ok(StrV(v)))

-----------------------------------------------------------------------------
(* Lexer states and the rules of each *)

VState == <<"v1", "v2", "v3", "v4", "v5", "v6", "v7", "v8", "v9">>
CState == <<"c1", "c2", "c3", "c4", "c5", "c6", "c7", "c8", "c9">>

\* The declared states, with PLY's own INITIAL.
\* states with v9 left undeclared: INITIAL, v0..v8 and c1..c9 only.
states_without_v9 ==
    {"INITIAL", "v0"} \cup {VState[i] : i \in 1..8} \cup {CState[i] : i \in 1..9}

states == {"INITIAL", "v0"} \cup {VState[i] : i \in 1..9} \cup {CState[i] : i \in 1..9}

\* f'c{n}'
CName(n) == IF n \in 1..9 THEN CState[n] ELSE "c" \o ToString(n)

\* TabStates with the TAB rule also declared for v9.
TabStates_v9 == {"v0", "v1", "v2", "v3", "v4", "v5", "v6", "v7", "v8", "v9"}

\* t_v0_v1_v2_v3_v4_v5_v6_v7_v8_TAB
TabStates == {"v0", "v1", "v2", "v3", "v4", "v5", "v6", "v7", "v8"}

\* NewlineStates with the NEWLINE rule declared for every state (t_ANY_NEWLINE).
NewlineStates_any == states

\* t_INITIAL_v9_NEWLINE
NewlineStates == {"INITIAL", "v9"}

\* RuleOrder with t_INTEGER_ID defined above the two longer id rules.
RuleOrder_integer_first ==
    <<"TAB", "COMMENT", "INTEGER_ID", "RANGE_ID", "DECIMAL_ID", "FORM", "LEMMA",
      "UPOS", "XPOS", "FEATS", "HEAD", "DEPREL", "DEPS", "MISC", "NEWLINE">>

\* The function rules in the order PLY tries them: the order of their
\* definition in the class.
RuleOrder ==
    <<"TAB", "COMMENT", "RANGE_ID", "DECIMAL_ID", "INTEGER_ID", "FORM", "LEMMA",
      "UPOS", "XPOS", "FEATS", "HEAD", "DEPREL", "DEPS", "MISC", "NEWLINE">>

\* The states a rule is active in, from the prefix of its name.
RuleStates(r) ==
    CASE r = "TAB" -> TabStates
      [] r \in {"COMMENT", "RANGE_ID", "DECIMAL_ID", "INTEGER_ID"} -> {"INITIAL"}
      [] r = "FORM" -> {"c1"}
      [] r = "LEMMA" -> {"c2"}
      [] r = "UPOS" -> {"c3"}
      [] r = "XPOS" -> {"c4"}
      [] r = "FEATS" -> {"c5"}
      [] r = "HEAD" -> {"c6"}
      [] r = "DEPREL" -> {"c7"}
      [] r = "DEPS" -> {"c8"}
      [] r = "MISC" -> {"c9"}
      [] r = "NEWLINE" -> NewlineStates
      [] OTHER -> {}

\* The pattern of each rule, applied at offset p.
Matcher(r, s, p) ==
    CASE r = "TAB" -> Lit(s, p, TABC)
      [] r = "COMMENT" ->
            IF At(s, p) = "#" THEN RunNotIn(s, p + 1, {NL}) ELSE -1
      [] r = "RANGE_ID" ->
            LET a == PosInt(s, p)
            IN  IF a >= 0 /\ At(s, a) = "-" THEN PosInt(s, a + 1) ELSE -1
      [] r = "DECIMAL_ID" ->
            LET h == HeadBefore(s, p, ".")
            IN  IF h >= 0 THEN PosInt(s, h + 1) ELSE -1
      [] r = "INTEGER_ID" -> PosInt(s, p)
      [] r = "FORM" -> Plus(RunNotIn(s, p, {NL, TABC}), p)
      [] r = "LEMMA" -> Plus(RunNotIn(s, p, {NL, TABC}), p)
      [] r = "UPOS" -> upos(s, p)
      [] r = "XPOS" -> Plus(RunNotIn(s, p, {NL, TABC, SP}), p)
      [] r = "FEATS" -> feats(s, p)
      [] r = "HEAD" -> IF dep_head(s, p) >= 0 THEN dep_head(s, p) ELSE Lit(s, p, "_")
      [] r = "DEPREL" -> Plus(RunNotIn(s, p, {NL, TABC, SP}), p)
      [] r = "DEPS" -> deps(s, p)
      [] r = "MISC" -> Plus(RunNotIn(s, p, {NL, TABC, SP}), p)
      [] r = "NEWLINE" -> Lit(s, p, NL)

\* The rule PLY's master pattern of state st selects at offset p: the first
\* rule of the state, in order, whose pattern matches; "error" when none does.
RECURSIVE SelectFrom(_, _, _, _)
SelectFrom(st, s, p, i) ==
    IF i > Len(RuleOrder) THEN "error"
    ELSE IF st \in RuleStates(RuleOrder[i]) /\ Matcher(RuleOrder[i], s, p) >= 0
         THEN RuleOrder[i]
         ELSE SelectFrom(st, s, p, i + 1)

Selected(st, s, p) == SelectFrom(st, s, p, 1)

-----------------------------------------------------------------------------
(* Input texts *)

\* A well-formed document as its lexemes, each with the class of state the
\* lexer is in after it ("I" INITIAL, "v" a v state, "c1".."c9").
Lx(text, after) == [text |-> text, after |-> after]

Doc ==
    << Lx(<<"1">>, "v"), Lx(<<TABC>>, "c1"),
       Lx(<<"T", "h">>, "v"), Lx(<<TABC>>, "c2"),
       Lx(<<"_">>, "v"), Lx(<<TABC>>, "c3"),
       Lx(<<"D", "E", "T">>, "v"), Lx(<<TABC>>, "c4"),
       Lx(<<"_">>, "v"), Lx(<<TABC>>, "c5"),
       Lx(<<"A", "=", "B", ",", "C", "|", "D", "[", "e", "]", "=", "F">>, "v"),
       Lx(<<TABC>>, "c6"),
       Lx(<<"2">>, "v"), Lx(<<TABC>>, "c7"),
       Lx(<<"d", "e", "t">>, "v"), Lx(<<TABC>>, "c8"),
       Lx(<<"4", ":", "a", "|", "1", "6", ":", "c", ":", "d">>, "v"),
       Lx(<<TABC>>, "c9"),
       Lx(<<"_">>, "v"), Lx(<<NL>>, "I"),
       Lx(<<"#", SP, "c", SP>>, "I"), Lx(<<NL>>, "I"),
       Lx(<<"4", "-", "5">>, "v"), Lx(<<TABC>>, "c1"),
       Lx(<<"a", SP, "b">>, "v"), Lx(<<TABC>>, "c2"),
       Lx(<<"x">>, "v"), Lx(<<TABC>>, "c3"),
       Lx(<<"_">>, "v"), Lx(<<TABC>>, "c4"),
       Lx(<<"x">>, "v"), Lx(<<TABC>>, "c5"),
       Lx(<<"_">>, "v"), Lx(<<TABC>>, "c6"),
       Lx(<<"_">>, "v"), Lx(<<TABC>>, "c7"),
       Lx(<<"_">>, "v"), Lx(<<TABC>>, "c8"),
       Lx(<<"_">>, "v"), Lx(<<TABC>>, "c9"),
       Lx(<<"x", "=", "y">>, "v"), Lx(<<NL>>, "I"),
       Lx(<<NL>>, "I"),
       Lx(<<"8", ".", "1">>, "v") >>

\* The pieces a free tail is made of, by the class of state it starts in.
Atoms(cls) ==
    CASE cls = "I" ->
            {<<"1">>, <<"0">>, <<"-", "2">>, <<".", "3">>, <<"#">>, <<SP>>, <<NL>>,
             <<TABC>>}
      [] cls = "v" -> {<<TABC>>, <<NL>>, <<"a">>, <<"#">>}
      [] cls \in {"c1", "c2", "c4", "c7", "c9"} ->
            {<<"_">>, <<"a">>, <<"#">>, <<SP>>, <<TABC>>, <<NL>>}
      [] cls = "c3" ->
            {<<"X">>, <<"_">>, <<"D", "E", "T">>, <<"x">>, <<TABC>>, <<NL>>}
      [] cls = "c5" ->
            {<<"A">>, <<"=", "B">>, <<"|", "A", "=", "B">>, <<",", "C">>,
             <<"[", "a", "]">>, <<"_">>, <<NL>>}
      [] cls = "c6" -> {<<"1">>, <<"0">>, <<"_">>, <<"a">>, <<TABC>>}
      [] cls = "c8" ->
            {<<"4", ":", "a">>, <<"|", "b">>, <<"|", "6", ":", "c", ":", "d">>,
             <<"_">>, <<"0">>, <<":">>, <<TABC>>}

RECURSIVE Flatten(_)
Flatten(ss) == IF ss = <<>> THEN <<>> ELSE Head(ss) \o Flatten(Tail(ss))

\* Tails of at most n pieces.
RECURSIVE TailsOf(_, _)
TailsOf(A, n) ==
    IF n = 0 THEN {<<>>}
    ELSE {<<>>} \cup {a \o t : a \in A, t \in TailsOf(A, n - 1)}

DocText(k) == Flatten([i \in 1..k |-> Doc[i].text])

ClassAfter(k) == IF k = 0 THEN "I" ELSE Doc[k].after

\* Complete rows, as their ten fields.
Rows ==
    {<<(<<"1">>), <<"T", "h", "e">>, <<"t", "h", "e">>, <<"D", "E", "T">>, <<"_">>,
       <<"_">>, <<"2">>, <<"d", "e", "t">>, <<"_">>, <<"_">>>>,
     <<(<<"2">>), <<"d", "o", "g">>, <<"d", "o", "g">>, <<"N", "O", "U", "N">>, <<"_">>,
       <<"_">>, <<"0">>, <<"r", "o", "o", "t">>, <<"_">>, <<"_">>>>,
     <<(<<"1", "0">>), <<"_">>, <<"a">>, <<"X">>, <<"x">>,
       <<"_">>, <<"1", "2">>, <<"x">>, <<"_">>, <<"_">>>>}

\* The line of a row: its fields, a tab between them, a newline at the end.
RowText(f) ==
    Flatten([k \in 1..(2 * Len(f)) |->
                IF k % 2 = 1 THEN f[(k + 1) \div 2]
                ELSE IF k = 2 * Len(f) THEN <<NL>> ELSE <<TABC>>])

\* Two complete rows followed by a blank line.
TwoRowDocs == {RowText(a) \o RowText(b) \o <<NL>> : a, b \in Rows}

\* The texts a lexer is given: k lexemes of the document, then a free tail;
\* and the two-row documents.
Inputs ==
    UNION {{DocText(k) \o t : t \in TailsOf(Atoms(ClassAfter(k)), MaxTail)} :
           k \in 0..Len(Doc)}
        \cup TwoRowDocs

-----------------------------------------------------------------------------
(* The lexer instance *)

NoError == [line |-> 0, column |-> 0, char |-> ""]

\* No sentence element has been constructed.
NoElement == [made |-> FALSE]

\* ConlluLexerBuilder.__init__ / build, then lexer.input(text).
Init ==
    /\ lexdata \in Inputs
    /\ lexpos = 0
    /\ lexstate = "INITIAL"
    /\ lineno = 1
    /\ tab_count = 0
    /\ tokens = <<>>
    /\ outcome = "none"
    /\ error = NoError
    /\ nraised = 0
    /\ element = NoElement

\* A LexToken: `lexeme` is the matched text m.group(), which a rule's body
\* replaces by `value`.
Token(type, lexeme, value) ==
    [type |-> type, lexeme |-> lexeme, value |-> value,
     lineno |-> lineno, lexpos |-> lexpos]

\* The caller asks for a token: the text is not exhausted, the stream has not
\* ended, and the caller has not given the instance up.
Requested(r) ==
    /\ outcome # "eof"
    /\ nraised < MaxRaise
    /\ lexpos < Len(lexdata)
    /\ r # "error" => lexstate \in RuleStates(r)
    /\ Selected(lexstate, lexdata, lexpos) = r

MatchEnd(r) == Matcher(r, lexdata, lexpos)

Lexeme(r) == Slice(lexdata, lexpos, MatchEnd(r))

\* Lexer.token() on a match of rule r whose body decodes the lexeme to d and
\* then calls begin(next): the cursor moves past the match before the body
\* runs, so an exception in the body leaves it there, in the old state.
Produce(r, d, next) ==
    /\ lexpos' = MatchEnd(r)
    /\ error' = NoError
    /\ IF d.ok
       THEN /\ tokens' = Append(tokens, Token(r, Lexeme(r), d.value))
            /\ lexstate' = next
            /\ outcome' = "token"
            /\ nraised' = nraised
       ELSE /\ outcome' = "ValueError"
            /\ nraised' = nraised + 1
            /\ UNCHANGED <<tokens, lexstate>>

-----------------------------------------------------------------------------
(* The rules *)

\* self._tab_count += 1
TabCountAfterTab(n) == n + 1

\* TabCountAfterNewline with the reset forgotten.
TabCountAfterNewline_kept(n) == n

\* self._tab_count = 0
TabCountAfterNewline(n) == 0

\* BeginOf with the FORM rule's begin() copied from the LEMMA rule.
BeginOf_copied(r) ==
    CASE r \in {"RANGE_ID", "DECIMAL_ID", "INTEGER_ID"} -> "v0"
      [] r = "FORM" -> "v2"
      [] r = "LEMMA" -> "v2"
      [] r = "UPOS" -> "v3"
      [] r = "XPOS" -> "v4"
      [] r = "FEATS" -> "v5"
      [] r = "HEAD" -> "v6"
      [] r = "DEPREL" -> "v7"
      [] r = "DEPS" -> "v8"
      [] r = "MISC" -> "v9"
      [] r = "NEWLINE" -> "INITIAL"

\* The state each value rule hands over to: its token.lexer.begin(...).
BeginOf(r) ==
    CASE r \in {"RANGE_ID", "DECIMAL_ID", "INTEGER_ID"} -> "v0"
      [] r = "FORM" -> "v1"
      [] r = "LEMMA" -> "v2"
      [] r = "UPOS" -> "v3"
      [] r = "XPOS" -> "v4"
      [] r = "FEATS" -> "v5"
      [] r = "HEAD" -> "v6"
      [] r = "DEPREL" -> "v7"
      [] r = "DEPS" -> "v8"
      [] r = "MISC" -> "v9"
      [] r = "NEWLINE" -> "INITIAL"

\* begin() raises ValueError('Undefined state') for a state never declared.
t_v0_v1_v2_v3_v4_v5_v6_v7_v8_TAB ==
    /\ Requested("TAB")
    /\ tab_count' = TabCountAfterTab(tab_count)
    /\ Produce("TAB",
               IF CName(TabCountAfterTab(tab_count)) \in states
               THEN Ok(StrV(Lexeme("TAB"))) ELSE Raise,
               CName(TabCountAfterTab(tab_count)))
    /\ UNCHANGED <<element, lexdata, lineno>>

t_COMMENT ==
    /\ Requested("COMMENT")
    /\ Produce("COMMENT", decode_COMMENT(Lexeme("COMMENT")), lexstate)
    /\ UNCHANGED <<element, lexdata, lineno, tab_count>>

t_RANGE_ID ==
    /\ Requested("RANGE_ID")
    /\ Produce("RANGE_ID", decode_RANGE_ID(Lexeme("RANGE_ID")), BeginOf("RANGE_ID"))
    /\ UNCHANGED <<element, lexdata, lineno, tab_count>>

t_DECIMAL_ID ==
    /\ Requested("DECIMAL_ID")
    /\ Produce("DECIMAL_ID", decode_DECIMAL_ID(Lexeme("DECIMAL_ID")), BeginOf("DECIMAL_ID"))
    /\ UNCHANGED <<element, lexdata, lineno, tab_count>>

t_INTEGER_ID ==
    /\ Requested("INTEGER_ID")
    /\ Produce("INTEGER_ID", decode_INTEGER_ID(Lexeme("INTEGER_ID")), BeginOf("INTEGER_ID"))
    /\ UNCHANGED <<element, lexdata, lineno, tab_count>>

t_c1_FORM ==
    /\ Requested("FORM")
    /\ Produce("FORM", decode_FORM(Lexeme("FORM")), BeginOf("FORM"))
    /\ UNCHANGED <<element, lexdata, lineno, tab_count>>

t_c2_LEMMA ==
    /\ Requested("LEMMA")
    /\ Produce("LEMMA", decode_LEMMA(Lexeme("LEMMA")), BeginOf("LEMMA"))
    /\ UNCHANGED <<element, lexdata, lineno, tab_count>>

t_c3_UPOS ==
    /\ Requested("UPOS")
    /\ Produce("UPOS", decode_UPOS(Lexeme("UPOS")), BeginOf("UPOS"))
    /\ UNCHANGED <<element, lexdata, lineno, tab_count>>

t_c4_XPOS ==
    /\ Requested("XPOS")
    /\ Produce("XPOS", decode_XPOS(Lexeme("XPOS")), BeginOf("XPOS"))
    /\ UNCHANGED <<element, lexdata, lineno, tab_count>>

t_c5_FEATS ==
    /\ Requested("FEATS")
    /\ Produce("FEATS", decode_FEATS(Lexeme("FEATS")), BeginOf("FEATS"))
    /\ UNCHANGED <<element, lexdata, lineno, tab_count>>

t_c6_HEAD ==
    /\ Requested("HEAD")
    /\ Produce("HEAD", decode_HEAD(Lexeme("HEAD")), BeginOf("HEAD"))
    /\ UNCHANGED <<element, lexdata, lineno, tab_count>>

t_c7_DEPREL ==
    /\ Requested("DEPREL")
    /\ Produce("DEPREL", decode_DEPREL(Lexeme("DEPREL")), BeginOf("DEPREL"))
    /\ UNCHANGED <<element, lexdata, lineno, tab_count>>

t_c8_DEPS ==
    /\ Requested("DEPS")
    /\ Produce("DEPS", decode_DEPS(Lexeme("DEPS")), BeginOf("DEPS"))
    /\ UNCHANGED <<element, lexdata, lineno, tab_count>>

t_c9_MISC ==
    /\ Requested("MISC")
    /\ Produce("MISC", decode_MISC(Lexeme("MISC")), BeginOf("MISC"))
    /\ UNCHANGED <<element, lexdata, lineno, tab_count>>

t_INITIAL_v9_NEWLINE ==
    /\ Requested("NEWLINE")
    /\ lineno' = lineno + 1
    /\ tab_count' = TabCountAfterNewline(tab_count)
    /\ Produce("NEWLINE", Ok(StrV(Lexeme("NEWLINE"))), BeginOf("NEWLINE"))
    /\ UNCHANGED <<element, lexdata>>

\* lexdata.rfind(c, 0, end): the last offset below end holding c, or -1.
RECURSIVE rfind(_, _, _)
rfind(s, c, end) ==
    IF end <= 0 THEN -1
    ELSE IF At(s, end - 1) = c THEN end - 1
    ELSE rfind(s, c, end - 1)

\* find_column with the final `+ 1` forgotten: a 0-based column.
find_column_zero_based(s, pos) == pos - (rfind(s, NL, pos) + 1)

find_column(s, pos) == (pos - (rfind(s, NL, pos) + 1)) + 1

\* IllegalCharacterError(token), for the error token PLY makes at the cursor.
IllegalCharacterError(s, pos, line) ==
    [line |-> line, column |-> find_column(s, pos), char |-> At(s, pos)]

\* ErrorCursor with the error rule skipping the offending character
\* (token.lexer.skip(1)) before it raises.
ErrorCursor_skipped(pos) == pos + 1

\* Where the cursor is left when the error rule raises: the rule never calls
\* skip(), so at the offending character.
ErrorCursor(pos) == pos

\* No rule of the state matches: PLY sets the cursor to the offending
\* character and calls the error rule, which raises.
t_ANY_error ==
    /\ Requested("error")
    /\ outcome' = "IllegalCharacter"
    /\ error' = IllegalCharacterError(lexdata, lexpos, lineno)
    /\ nraised' = nraised + 1
    /\ lexpos' = ErrorCursor(lexpos)
    /\ UNCHANGED <<element, lexdata, lexstate, lineno, tab_count, tokens>>

\* EndOfInput with an end-of-file rule that refuses an unfinished row: the
\* text may end in INITIAL and v9 only.
EndOfInput_strict ==
    /\ outcome # "eof"
    /\ nraised < MaxRaise
    /\ lexpos >= Len(lexdata)
    /\ IF lexstate \in {"INITIAL", "v9"}
       THEN /\ lexpos' = lexpos + 1
            /\ outcome' = "eof"
            /\ error' = NoError
            /\ nraised' = nraised
       ELSE /\ lexpos' = lexpos
            /\ outcome' = "IllegalCharacter"
            /\ error' = [line |-> lineno, column |-> find_column(lexdata, lexpos),
                         char |-> ""]
            /\ nraised' = nraised + 1
    /\ UNCHANGED <<element, lexdata, lexstate, lineno, tab_count, tokens>>

\* At the end of the text token() steps the cursor once more and returns None,
\* in whatever state the lexer is; iterating the lexer ends there.
EndOfInput ==
    /\ outcome # "eof"
    /\ nraised < MaxRaise
    /\ lexpos >= Len(lexdata)
    /\ lexpos' = lexpos + 1
    /\ outcome' = "eof"
    /\ error' = NoError
    /\ UNCHANGED <<element, lexdata, lexstate, lineno, tab_count, tokens, nraised>>

Next ==
    \/ t_v0_v1_v2_v3_v4_v5_v6_v7_v8_TAB
    \/ t_COMMENT
    \/ t_RANGE_ID
    \/ t_DECIMAL_ID
    \/ t_INTEGER_ID
    \/ t_c1_FORM
    \/ t_c2_LEMMA
    \/ t_c3_UPOS
    \/ t_c4_XPOS
    \/ t_c5_FEATS
    \/ t_c6_HEAD
    \/ t_c7_DEPREL
    \/ t_c8_DEPS
    \/ t_c9_MISC
    \/ t_INITIAL_v9_NEWLINE
    \/ t_ANY_error
    \/ EndOfInput

Spec == Init /\ [][Next]_vars

-----------------------------------------------------------------------------
(* The sentence element *)

\* The strings an element is given.
ElementStrings ==
    {<<>>, <<"F", "o", "o">>, <<"B", "a", "r">>, <<"_">>, <<"a", SP, "b">>}

\* Optional[str]: None or a string.
OptionalStr == {None} \cup {StrV(x) : x \in ElementStrings}

\* BaseSentenceElement.__init__: the attributes of the new instance.
BaseSentenceElement(form, misc) == [form |-> form, misc |-> misc]

\* is_valid as a method that wants a form.
is_valid_needs_form == element.self.form # None

\* BaseSentenceElement.is_valid()
is_valid == TRUE

\* A lexer that is given no text and is never asked for a token.
ElementInit ==
    /\ lexdata = <<>>
    /\ Init

\* word = BaseSentenceElement(form=f, misc=m)
Construct ==
    /\ ~element.made
    /\ \E f \in OptionalStr, m \in OptionalStr :
          element' = [made |-> TRUE,
                      given |-> [form |-> f, misc |-> m],
                      self |-> BaseSentenceElement(f, m),
                      asked |-> FALSE,
                      valid |-> FALSE]
    /\ UNCHANGED lexer

\* word.form = v
SetForm ==
    /\ element.made
    /\ \E v \in OptionalStr : element' = [element EXCEPT !.self.form = v]
    /\ UNCHANGED lexer

\* word.misc = v
SetMisc ==
    /\ element.made
    /\ \E v \in OptionalStr : element' = [element EXCEPT !.self.misc = v]
    /\ UNCHANGED lexer

\* word.is_valid()
CallIsValid ==
    /\ element.made
    /\ element' = [element EXCEPT !.asked = TRUE, !.valid = is_valid]
    /\ UNCHANGED lexer

ElementNext ==
    \/ Construct
    \/ SetForm
    \/ SetMisc
    \/ CallIsValid

ElementSpec == ElementInit /\ [][ElementNext]_vars

-----------------------------------------------------------------------------
(* Two lexer instances *)

\* The value a rule's body gives its token.
Decode(r, v) ==
    CASE r = "COMMENT" -> decode_COMMENT(v)
      [] r = "RANGE_ID" -> decode_RANGE_ID(v)
      [] r = "DECIMAL_ID" -> decode_DECIMAL_ID(v)
      [] r = "INTEGER_ID" -> decode_INTEGER_ID(v)
      [] r = "FORM" -> decode_FORM(v)
      [] r = "LEMMA" -> decode_LEMMA(v)
      [] r = "UPOS" -> decode_UPOS(v)
      [] r = "XPOS" -> decode_XPOS(v)
      [] r = "FEATS" -> decode_FEATS(v)
      [] r = "HEAD" -> decode_HEAD(v)
      [] r = "DEPREL" -> decode_DEPREL(v)
      [] r = "DEPS" -> decode_DEPS(v)
      [] r = "MISC" -> decode_MISC(v)
      [] OTHER -> Ok(StrV(v))

\* One token request, as a function of the instance it is made of: the
\* record s holds what the variables of `lexer` hold for one instance.
token(s) ==
    IF s.lexpos >= Len(s.lexdata)
    THEN [s EXCEPT !.lexpos = @ + 1, !.outcome = "eof", !.error = NoError]
    ELSE
      LET r == Selected(s.lexstate, s.lexdata, s.lexpos)
      IN  IF r = "error"
          THEN [s EXCEPT !.outcome = "IllegalCharacter",
                         !.error = IllegalCharacterError(s.lexdata, s.lexpos, s.lineno),
                         !.nraised = @ + 1,
                         !.lexpos = ErrorCursor(@)]
          ELSE
            LET end == Matcher(r, s.lexdata, s.lexpos)
                lexeme == Slice(s.lexdata, s.lexpos, end)
                tabs == CASE r = "TAB" -> TabCountAfterTab(s.tab_count)
                          [] r = "NEWLINE" -> TabCountAfterNewline(s.tab_count)
                          [] OTHER -> s.tab_count
                line == IF r = "NEWLINE" THEN s.lineno + 1 ELSE s.lineno
                next == CASE r = "TAB" -> CName(tabs)
                          [] r = "COMMENT" -> s.lexstate
                          [] OTHER -> BeginOf(r)
                d == IF r = "TAB" /\ next \notin states THEN Raise ELSE Decode(r, lexeme)
                moved == [s EXCEPT !.lexpos = end, !.error = NoError,
                                   !.tab_count = tabs, !.lineno = line]
            IN  IF d.ok
                THEN [moved EXCEPT
                        !.tokens = Append(@, [type |-> r, lexeme |-> lexeme,
                                              value |-> d.value, lineno |-> s.lineno,
                                              lexpos |-> s.lexpos]),
                        !.lexstate = next,
                        !.outcome = "token"]
                ELSE [moved EXCEPT !.outcome = "ValueError", !.nraised = @ + 1]

\* The instance build() returns, given `text`.
Built(text) ==
    [lexdata |-> text, lexpos |-> 0, lexstate |-> "INITIAL", lineno |-> 1,
     tab_count |-> 0, tokens |-> <<>>, outcome |-> "none", error |-> NoError,
     nraised |-> 0]

\* The one instance of Spec, as a record.
Single ==
    [lexdata |-> lexdata, lexpos |-> lexpos, lexstate |-> lexstate,
     lineno |-> lineno, tab_count |-> tab_count, tokens |-> tokens,
     outcome |-> outcome, error |-> error, nraised |-> nraised]

\* token() is what the actions of Spec do: every step of Spec is one token().
TokenIsNext == [][Single' = token(Single)]_vars

\* Holder with _tab_count kept on the class: one counter for all builders.
Holder_class(i) == 0

\* Where instance i keeps its tab counter: __init__ sets self._tab_count, an
\* attribute of the builder that build() makes for this instance alone.
Holder(i) == i

\* The texts the two instances are given.
TwoInputs ==
    {DocText(20), DocText(24), RowText(CHOOSE f \in Rows : f[1] = <<"2">>),
     DocText(4) \o <<TABC>>, DocText(2) \o <<NL>>, DocText(17) \o <<"|", "b">>}

\* In TwoSpec every variable of `lexer` holds one value per instance, the tab
\* counter one value per holder.
Instance(i) ==
    [lexdata |-> lexdata[i], lexpos |-> lexpos[i], lexstate |-> lexstate[i],
     lineno |-> lineno[i], tab_count |-> tab_count[Holder(i)], tokens |-> tokens[i],
     outcome |-> outcome[i], error |-> error[i], nraised |-> nraised[i]]

\* a = ConlluLexerBuilder.build(); b = ConlluLexerBuilder.build(); each is
\* given its text.
TwoInit ==
    /\ lexdata \in [1..2 -> TwoInputs]
    /\ lexpos = [i \in 1..2 |-> 0]
    /\ lexstate = [i \in 1..2 |-> "INITIAL"]
    /\ lineno = [i \in 1..2 |-> 1]
    /\ tab_count = [h \in {Holder(i) : i \in 1..2} |-> 0]
    /\ tokens = [i \in 1..2 |-> <<>>]
    /\ outcome = [i \in 1..2 |-> "none"]
    /\ error = [i \in 1..2 |-> NoError]
    /\ nraised = [i \in 1..2 |-> 0]
    /\ element = NoElement

\* A token request to instance i.
Request(i) ==
    /\ outcome[i] # "eof"
    /\ nraised[i] < MaxRaise
    /\ \E s \in {token(Instance(i))} :
           /\ lexpos' = [lexpos EXCEPT ![i] = s.lexpos]
           /\ lexstate' = [lexstate EXCEPT ![i] = s.lexstate]
           /\ lineno' = [lineno EXCEPT ![i] = s.lineno]
           /\ tab_count' = [tab_count EXCEPT ![Holder(i)] = s.tab_count]
           /\ tokens' = [tokens EXCEPT ![i] = s.tokens]
           /\ outcome' = [outcome EXCEPT ![i] = s.outcome]
           /\ error' = [error EXCEPT ![i] = s.error]
           /\ nraised' = [nraised EXCEPT ![i] = s.nraised]
    /\ UNCHANGED <<element, lexdata>>

FirstRequests == Request(1)

SecondRequests == Request(2)

TwoNext ==
    \/ FirstRequests
    \/ SecondRequests

TwoSpec == TwoInit /\ [][TwoNext]_vars

-----------------------------------------------------------------------------
(* Vocabulary of the properties *)

NTok == Len(tokens)

\* A token was produced by the step.
Emitted == Len(tokens') = Len(tokens) + 1

NewTok == tokens'[Len(tokens')]

\* The kind of column k.
ColumnKind ==
    <<"FORM", "LEMMA", "UPOS", "XPOS", "FEATS", "HEAD", "DEPREL", "DEPS", "MISC">>

AwaitTab == {"v0", "v1", "v2", "v3", "v4", "v5", "v6", "v7", "v8"}
ExpectValue == {"c1", "c2", "c3", "c4", "c5", "c6", "c7", "c8", "c9"}

\* The index of the last NEWLINE token before token i, 0 when there is none.
RowStart(i) ==
    LET nls == {j \in 1..(i - 1) : tokens[j].type = "NEWLINE"}
    IN  IF nls = {} THEN 0 ELSE CHOOSE j \in nls : \A h \in nls : h <= j

\* How many TAB tokens the row of token i holds up to and including token i.
TabsInRow(i) == Cardinality({j \in (RowStart(i) + 1)..i : tokens[j].type = "TAB"})

\* The unread character.
Cur == At(lexdata, lexpos)

\* The text of the field that starts at offset p: up to the next tab or
\* newline, or the end of the text.
FieldAt(p) == Slice(lexdata, p, RunNotIn(lexdata, p, {TABC, NL}))

\* A decimal numeral without leading zero.
IsNum(x) == Len(x) > 0 /\ x[1] \in NonZero /\ \A i \in 1..Len(x) : x[i] \in Digits

\* The number a numeral denotes.
NumVal(x) ==
    LET pow[n \in 0..Len(x)] == IF n = 0 THEN 1 ELSE 10 * pow[n - 1]
        sum[n \in 0..Len(x)] ==
            IF n = 0 THEN 0
            ELSE sum[n - 1] + DigitVal(x[n]) * pow[Len(x) - n]
    IN  sum[Len(x)]

\* The positions at which separator c cuts x into two numerals n c m, the
\* first one allowed to be 0 when zeroFirst.
Cuts(x, c, zeroFirst) ==
    {i \in 2..(Len(x) - 1) :
        /\ x[i] = c
        /\ IsNum(SubSeq(x, 1, i - 1)) \/ (zeroFirst /\ SubSeq(x, 1, i - 1) = <<"0">>)
        /\ IsNum(SubSeq(x, i + 1, Len(x)))}

-----------------------------------------------------------------------------
(* C1: column dispatch.  The k-th TAB token of a row (k in 1..9) leaves the  *)
(* lexer in state c_k; the token after it has the kind of column k and       *)
(* leaves the lexer in state v_k.  Stated of the newest tokens, in every     *)
(* reachable state, hence of every token when it was produced.               *)
C1_ColumnDispatch ==
    /\ (NTok >= 1 /\ tokens[NTok].type = "TAB" /\ TabsInRow(NTok) \in 1..9)
          => lexstate = CState[TabsInRow(NTok)]
    /\ (NTok >= 2 /\ tokens[NTok - 1].type = "TAB" /\ TabsInRow(NTok - 1) \in 1..9)
          => /\ tokens[NTok].type = ColumnKind[TabsInRow(NTok - 1)]
             /\ lexstate = VState[TabsInRow(NTok - 1)]

\* The ninth tab of a later row has been followed by that row's MISC.
C1_Witness ==
    /\ NTok >= 2
    /\ tokens[NTok - 1].type = "TAB"
    /\ TabsInRow(NTok - 1) = 9
    /\ tokens[NTok].type = "MISC"
    /\ RowStart(NTok) > 0
    /\ lexstate = "v9"

(* C2: the tab counter is reset exactly at NEWLINE tokens.  A step that      *)
(* produces a NEWLINE token leaves the tab counter 0, the line number one    *)
(* higher and the state INITIAL; no other step lowers the tab counter.       *)
C2_ResetAtNewline ==
    [][/\ (Emitted /\ NewTok.type = "NEWLINE")
             => (tab_count' = 0 /\ lineno' = lineno + 1 /\ lexstate' = "INITIAL")
       /\ ~(Emitted /\ NewTok.type = "NEWLINE") => tab_count' >= tab_count
       /\ ~(Emitted /\ NewTok.type = "NEWLINE") => lineno' = lineno]_vars

\* A NEWLINE has ended a full row: the counter went from 9 to 0.
C2_Witness ==
    /\ NTok >= 20
    /\ tokens[NTok].type = "NEWLINE"
    /\ tokens[NTok - 1].type = "MISC"
    /\ TabsInRow(NTok) = 9
    /\ tab_count = 0
    /\ lineno = tokens[NTok].lineno + 1

(* C3: at most 9 tabs per row.  The tab counter never exceeds 9, no row      *)
(* holds a tenth TAB token, and a tab met in state v9 raises                 *)
(* IllegalCharacter and produces no token.                                   *)
C3_AtMostNineTabs ==
    /\ [](/\ tab_count <= 9
          /\ \A i \in 1..NTok : tokens[i].type = "TAB" => TabsInRow(i) <= 9)
    /\ [][(lexstate = "v9" /\ Cur = TABC)
             => /\ outcome' = "IllegalCharacter"
                /\ error'.char = TABC
                /\ tokens' = tokens
                /\ lexstate' = "v9"
                /\ tab_count' = tab_count]_vars

\* A tenth tab was met after a row's tenth field and refused.
C3_Witness ==
    /\ lexstate = "v9"
    /\ Cur = TABC
    /\ tab_count = 9
    /\ outcome = "IllegalCharacter"
    /\ error.char = TABC

(* C4: legal characters after a value.  From v0..v8 only a tab yields a      *)
(* token (a TAB), from v9 only a newline (a NEWLINE); a NEWLINE token comes  *)
(* only from INITIAL or v9; a newline met in v0..v8 or c1..c9 raises         *)
(* IllegalCharacter and produces no token.                                   *)
C4_LegalAfterValue ==
    [][/\ (Emitted /\ lexstate \in AwaitTab) => (Cur = TABC /\ NewTok.type = "TAB")
       /\ (Emitted /\ lexstate = "v9") => (Cur = NL /\ NewTok.type = "NEWLINE")
       /\ (Emitted /\ NewTok.type = "NEWLINE") => lexstate \in {"INITIAL", "v9"}
       /\ (Cur = NL /\ lexstate \in AwaitTab \cup ExpectValue)
             => /\ outcome' = "IllegalCharacter"
                /\ error'.char = NL
                /\ tokens' = tokens
                /\ lexstate' = lexstate]_vars

\* A row was cut short by a newline, after a value and before one.
C4_Witness ==
    /\ outcome = "IllegalCharacter"
    /\ error.char = NL
    /\ lexstate \in {"v3", "c5"}
    /\ Cur = NL

(* C5: the ID field.  In INITIAL a field of the form n-m yields one RANGE_ID *)
(* with value (n, m), a field n.m one DECIMAL_ID with value (n, m), a plain  *)
(* positive integer n one INTEGER_ID with value n; the token covers the      *)
(* whole field and the lexer moves to v0.                                    *)
C5_IdField ==
    [][(lexstate = "INITIAL" /\ lexpos < Len(lexdata)) =>
          LET f == FieldAt(lexpos)
              IdToken(type, value) ==
                  /\ Emitted
                  /\ NewTok.type = type
                  /\ NewTok.lexeme = f
                  /\ NewTok.value = value
                  /\ lexpos' = lexpos + Len(f)
                  /\ lexstate' = "v0"
          IN  /\ \A i \in Cuts(f, "-", FALSE) :
                    IdToken("RANGE_ID",
                            IntsV(<<NumVal(SubSeq(f, 1, i - 1)),
                                    NumVal(SubSeq(f, i + 1, Len(f)))>>))
              /\ \A i \in Cuts(f, ".", TRUE) :
                    IdToken("DECIMAL_ID",
                            IntsV(<<NumVal(SubSeq(f, 1, i - 1)),
                                    NumVal(SubSeq(f, i + 1, Len(f)))>>))
              /\ IsNum(f) => IdToken("INTEGER_ID", IntV(NumVal(f)))]_vars

\* One run has produced an id of each of the three kinds.
C5_Witness ==
    /\ \E i \in 1..NTok :
          tokens[i].type = "INTEGER_ID" /\ tokens[i].value = IntV(1)
    /\ \E i \in 1..NTok :
          tokens[i].type = "RANGE_ID" /\ tokens[i].value = IntsV(<<4, 5>>)
    /\ \E i \in 1..NTok :
          tokens[i].type = "DECIMAL_ID" /\ tokens[i].value = IntsV(<<8, 1>>)

\* The 1-based line of offset p: one more than the newlines before it.
LineOf(p) == 1 + Cardinality({i \in 0..(p - 1) : At(lexdata, i) = NL})

\* The 1-based column of offset p: its distance from the start of its line.
ColumnOf(p) ==
    LET nls == {i \in 0..(p - 1) : At(lexdata, i) = NL}
        start == IF nls = {} THEN 0 ELSE 1 + CHOOSE i \in nls : \A j \in nls : j <= i
    IN  p - start + 1

RegistryNames == {UposTag[i] : i \in 1..Len(UposTag)}

(* C6: an UPOS field that is neither a registry name nor `_` raises          *)
(* IllegalCharacter whose line and column are those of the field's first     *)
(* character.                                                                *)
C6_IllegalUpos ==
    [][(/\ lexstate = "c3"
        /\ lexpos < Len(lexdata)
        /\ FieldAt(lexpos) \notin RegistryNames \cup {<<"_">>})
          => /\ outcome' = "IllegalCharacter"
             /\ tokens' = tokens
             /\ error'.line = LineOf(lexpos)
             /\ error'.column = ColumnOf(lexpos)]_vars

(* C7: IllegalCharacter is fatal.  Once a request has raised it, every later *)
(* request raises the same error at the same place and yields no token.      *)
C7_ErrorIsFatal ==
    [][outcome = "IllegalCharacter"
          => /\ tokens' = tokens
             /\ outcome' = "IllegalCharacter"
             /\ error' = error
             /\ lexpos' = lexpos
             /\ lexstate' = lexstate]_vars

\* A request was retried after IllegalCharacter, with text left to read.
C7_Witness ==
    /\ outcome = "IllegalCharacter"
    /\ nraised >= 2
    /\ lexstate \in AwaitTab
    /\ lexpos + 1 < Len(lexdata)
    /\ At(lexdata, lexpos + 1) = TABC

(* C8: IllegalCharacter is the only error.  No request ends in another       *)
(* runtime error: every lexeme a matcher accepts is decoded.                 *)
C8_OnlyIllegalCharacter == outcome \in {"none", "token", "eof", "IllegalCharacter"}

\* The segments of a DEPS lexeme and, for a segment, the offset of its first
\* colon (-1 when it has none).
FirstColon(x) ==
    LET cs == {i \in 1..Len(x) : x[i] = ":"}
    IN  IF cs = {} THEN -1 ELSE (CHOOSE i \in cs : \A j \in cs : i <= j) - 1

IsDigits(x) == Len(x) > 0 /\ \A i \in 1..Len(x) : x[i] \in Digits

\* Value v is the list of (head, deprel) of lexeme x cut at the first colons.
IsFirstColonSplit(v, x) ==
    LET segs == split(x, "|")
    IN  /\ v.tag = "deps"
        /\ Len(v.deps) = Len(segs)
        /\ \A i \in 1..Len(segs) :
              LET c == FirstColon(segs[i])
              IN  /\ c >= 0
                  /\ IsDigits(Slice(segs[i], 0, c))
                  /\ v.deps[i].head = NumVal(Slice(segs[i], 0, c))
                  /\ v.deps[i].deprel = Slice(segs[i], c + 1, Len(segs[i]))

(* C9: DEPS decoding.  Every lexeme the DEPS matcher accepts, other than     *)
(* `_`, is decoded to the list of its `|` segments, each cut at its first    *)
(* colon into (integer head, deprel).                                        *)
C9_DepsFirstColon ==
    [][(/\ lexstate = "c8"
        /\ lexpos < Len(lexdata)
        /\ deps(lexdata, lexpos) >= 0
        /\ Slice(lexdata, lexpos, deps(lexdata, lexpos)) # <<"_">>)
          => /\ Emitted
             /\ NewTok.type = "DEPS"
             /\ IsFirstColonSplit(NewTok.value,
                                  Slice(lexdata, lexpos, deps(lexdata, lexpos)))]_vars

\* What does hold: a DEPS token that was produced, from a lexeme other than
\* `_`, carries the first-colon split of its lexeme.
C9_WhenDecoded ==
    \A i \in 1..NTok :
        (tokens[i].type = "DEPS" /\ tokens[i].lexeme # <<"_">>)
            => IsFirstColonSplit(tokens[i].value, tokens[i].lexeme)

NullableKinds == {"UPOS", "XPOS", "FEATS", "HEAD", "DEPREL", "DEPS", "MISC"}

(* C10: nullable and non-nullable columns.  A field that is exactly `_`      *)
(* yields the column's token with value None in columns UPOS..MISC and with  *)
(* the string `_` in FORM and LEMMA; every FORM and LEMMA value is its       *)
(* lexeme verbatim.                                                          *)
C10_Nullable ==
    /\ [](\A i \in 1..NTok :
             tokens[i].type \in {"FORM", "LEMMA"}
                => tokens[i].value = StrV(tokens[i].lexeme))
    /\ [][\A k \in 1..9 :
             (/\ lexstate = CState[k]
              /\ lexpos < Len(lexdata)
              /\ FieldAt(lexpos) = <<"_">>)
                => /\ Emitted
                   /\ NewTok.type = ColumnKind[k]
                   /\ NewTok.lexeme = <<"_">>
                   /\ NewTok.value = IF k <= 2 THEN StrV(<<"_">>) ELSE None]_vars

\* One run has read `_` in LEMMA and in each of the seven nullable columns.
C10_Witness ==
    /\ \E i \in 1..NTok : tokens[i].type = "LEMMA" /\ tokens[i].value = StrV(<<"_">>)
    /\ \A kind \in NullableKinds :
          \E i \in 1..NTok :
              /\ tokens[i].type = kind
              /\ tokens[i].lexeme = <<"_">>
              /\ tokens[i].value = None

(* C11: the position an IllegalCharacter carries.  Whenever it is raised at  *)
(* offset p, its line number is 1 plus the number of newlines before p and   *)
(* its column number is p minus the start of p's line, plus 1.               *)
C11_ErrorPosition ==
    [][(outcome' = "IllegalCharacter" /\ nraised' = nraised + 1)
          => /\ error'.line = LineOf(lexpos)
             /\ error'.column = ColumnOf(lexpos)
             /\ error'.line >= 1
             /\ error'.column >= 1]_vars

\* An error raised past the second line's first character.
C11_Witness ==
    /\ outcome = "IllegalCharacter"
    /\ error.line >= 2
    /\ error.column >= 3
    /\ error.column < lexpos

\* A request ended the run: it yielded no token.
Stopped == outcome \notin {"none", "token"}

(* C12: token production is finite and never rewinds.  Every request that    *)
(* yields a token strictly increases the offset, the offset never decreases, *)
(* and a run stops only because the input is exhausted or because            *)
(* IllegalCharacter is raised.                                               *)
C12_FiniteNoRewind ==
    [][/\ lexpos' >= lexpos
       /\ Emitted => lexpos' > lexpos
       /\ Stopped' => outcome' \in {"eof", "IllegalCharacter"}]_vars

\* What does hold: the offset never decreases and grows with every token;
C12_NoRewind ==
    [][/\ lexpos' >= lexpos
       /\ Emitted => lexpos' > lexpos]_vars

\* it stays within the text (one past it at the end), so a run makes at most
\* Len(lexdata) token steps, and the step after its end of input is its last.
C12_Bounded ==
    /\ NTok <= lexpos
    /\ lexpos <= Len(lexdata) + 1
    /\ lexpos = Len(lexdata) + 1 => outcome = "eof"

\* The offset of the first newline at or after p, the end of the text when
\* there is none.
LineEnd(p) ==
    LET nls == {i \in p..(Len(lexdata) - 1) : At(lexdata, i) = NL}
    IN  IF nls = {} THEN Len(lexdata) ELSE CHOOSE i \in nls : \A j \in nls : i <= j

\* x without its leading and trailing whitespace.
Stripped(x) ==
    LET ink == {i \in 1..Len(x) : x[i] \notin {SP, TABC, NL}}
    IN  IF ink = {} THEN <<>>
        ELSE LET a == CHOOSE i \in ink : \A j \in ink : i <= j
                 b == CHOOSE i \in ink : \A j \in ink : j <= i
             IN  [k \in 1..(b - a + 1) |-> x[a + k - 1]]

(* C13: a comment is recognized only in INITIAL and moves nothing but the    *)
(* cursor.  A `#` met in INITIAL yields one COMMENT token covering the text  *)
(* up to the next newline, whose value is the text after `#` stripped of     *)
(* surrounding whitespace; state, tab counter and line number are unchanged, *)
(* and the token after a COMMENT, if any, is a NEWLINE.                      *)
C13_Comment ==
    [][/\ (lexstate = "INITIAL" /\ lexpos < Len(lexdata) /\ Cur = "#")
            => /\ Emitted
               /\ NewTok.type = "COMMENT"
               /\ NewTok.lexeme = Slice(lexdata, lexpos, LineEnd(lexpos))
               /\ NewTok.value =
                     StrV(Stripped(Slice(lexdata, lexpos + 1, LineEnd(lexpos))))
               /\ lexpos' = LineEnd(lexpos)
               /\ lexstate' = "INITIAL"
               /\ tab_count' = tab_count
               /\ lineno' = lineno
       /\ (Emitted /\ NewTok.type = "COMMENT") => lexstate = "INITIAL"
       /\ (Emitted /\ NTok >= 1 /\ tokens[NTok].type = "COMMENT")
            => NewTok.type = "NEWLINE"]_vars

\* The comment line `# c ` was read as the COMMENT `c`, then its NEWLINE.
C13_Witness ==
    \E i \in 1..(NTok - 1) :
        /\ tokens[i].type = "COMMENT"
        /\ tokens[i].lexeme = <<"#", SP, "c", SP>>
        /\ tokens[i].value = StrV(<<"c">>)
        /\ tokens[i].lineno = 2
        /\ tokens[i + 1].type = "NEWLINE"
        /\ tokens[i + 1].lineno = 2

\* The token kinds of a complete row whose ID is an integer.
RowKinds ==
    <<"INTEGER_ID", "TAB", "FORM", "TAB", "LEMMA", "TAB", "UPOS", "TAB", "XPOS",
      "TAB", "FEATS", "TAB", "HEAD", "TAB", "DEPREL", "TAB", "DEPS", "TAB", "MISC",
      "NEWLINE">>

\* The tokens of a two-row document are rows of n tokens each, then one
\* NEWLINE for the blank line; fields are decoded by their column.
EndToEnd(n) ==
    /\ NTok = 2 * n + 1
    /\ \A i \in 1..(2 * n) : tokens[i].type = RowKinds[((i - 1) % n) + 1]
    /\ tokens[NTok].type = "NEWLINE"
    /\ \A i \in 1..NTok :
          /\ tokens[i].type = "HEAD"
                => /\ IsNum(tokens[i].lexeme) \/ tokens[i].lexeme = <<"0">>
                   /\ tokens[i].value = IntV(NumVal(tokens[i].lexeme))
          /\ tokens[i].type = "DEPREL" => tokens[i].value = StrV(tokens[i].lexeme)
          /\ tokens[i].type \in {"FEATS", "DEPS", "MISC"}
                => tokens[i].lexeme = <<"_">> /\ tokens[i].value = None

(* C14, as the spec states it: tokenizing two complete 10-field rows and a   *)
(* blank line raises no error and yields two rows of 19 tokens each, in the  *)
(* order ID, TAB, FORM, ..., MISC, NEWLINE, then one more NEWLINE, with HEAD *)
(* decoded to an integer, DEPREL to a string and `_` in FEATS, DEPS and MISC *)
(* to absence.                                                               *)
C14_NineteenPerRow ==
    lexdata \in TwoRowDocs
        => /\ outcome \in {"none", "token", "eof"}
           /\ outcome = "eof" => EndToEnd(19)

(* C14, amended: the same with rows of 20 tokens each: ten values, the nine  *)
(* TABs between them and the row's NEWLINE; 41 tokens in all.                *)
C14_TwentyPerRow ==
    lexdata \in TwoRowDocs
        => /\ outcome \in {"none", "token", "eof"}
           /\ outcome = "eof" => EndToEnd(20)

\* The spec's example has been read to its end.
C14_Witness ==
    /\ lexdata \in TwoRowDocs
    /\ outcome = "eof"
    /\ NTok = 41
    /\ tokens[3].value = StrV(<<"T", "h", "e">>)
    /\ tokens[33].value = IntV(0)
    /\ tokens[35].value = StrV(<<"r", "o", "o", "t">>)

(* C16, as the spec states it: the lexer's state is always one of 19 states, *)
(* INITIAL, the 9 awaiting-tab states and the 9 expect-column-value states.  *)
C16_NineteenStates ==
    /\ Cardinality({"INITIAL"} \cup AwaitTab \cup ExpectValue) = 19
    /\ lexstate \in {"INITIAL"} \cup AwaitTab \cup ExpectValue

(* C16, amended: the lexer's state is always one of the 20 states the lexer  *)
(* has: INITIAL, the 9 awaiting-tab states v0..v8, the awaiting-newline      *)
(* state v9 and the 9 expect-column-value states c1..c9.                     *)
C16_TwentyStates ==
    /\ states = {"INITIAL"} \cup AwaitTab \cup {"v9"} \cup ExpectValue
    /\ Cardinality(states) = 20
    /\ lexstate \in states

\* A complete row has been read: the lexer awaits its newline, in v9.
C16_Witness ==
    /\ lexstate = "v9"
    /\ NTok >= 19
    /\ tokens[NTok].type = "MISC"

\* The column index a state names: the digit of v_i and c_i, 0 for INITIAL.
StateIndex(st) ==
    CASE st = "INITIAL" -> 0
      [] st = "v0" -> 0
      [] \E i \in 1..9 : st = VState[i] -> CHOOSE i \in 1..9 : st = VState[i]
      [] \E i \in 1..9 : st = CState[i] -> CHOOSE i \in 1..9 : st = CState[i]
      [] OTHER -> -1

(* C18: the state is the column index.  In every reachable configuration,    *)
(* state INITIAL implies tab counter 0 and state c_i or v_i implies tab      *)
(* counter i; the two never disagree, whatever tokens, comments, newlines    *)
(* and errors came before.                                                   *)
C18_StateIsColumn ==
    /\ lexstate = "INITIAL" => tab_count = 0
    /\ lexstate = "v0" => tab_count = 0
    /\ \A i \in 1..9 : lexstate \in {"v" \o ToString(i), "c" \o ToString(i)}
                          => tab_count = i
    /\ tab_count = StateIndex(lexstate)

\* After a comment line and eight columns of the next row, a request failed
\* in the last column: state c9 and counter 9 still agree.
C18_Witness ==
    /\ lexstate = "c9"
    /\ tab_count = 9
    /\ outcome = "IllegalCharacter"
    /\ lineno = 3

(* C19: end of input is accepted in every state.  When the text ends while   *)
(* the lexer is in INITIAL, any v_i or any c_i, the token stream ends after  *)
(* the tokens already produced and nothing is raised; IllegalCharacter is    *)
(* raised only when at least one unread character remains.                   *)
C19_EndOfInput ==
    [][/\ lexpos >= Len(lexdata)
            => /\ outcome' = "eof"
               /\ error' = NoError
               /\ tokens' = tokens
               /\ nraised' = nraised
               /\ lexstate' = lexstate
       /\ (outcome' = "IllegalCharacter" /\ nraised' = nraised + 1)
            => lexpos < Len(lexdata)]_vars

\* The text ended inside a row, in an expect-value state, after some tokens.
C19_Witness ==
    /\ outcome = "eof"
    /\ lexstate = "c6"
    /\ NTok >= 12
    /\ nraised = 0
    /\ tokens[NTok].type = "TAB"

(* C20: tokens tile the input in order.  The first token's lexeme starts at  *)
(* offset 0, each later one starts where the previous one ended, and every   *)
(* lexeme is non-empty, so no character is skipped or consumed twice; an     *)
(* empty field, a tab directly followed by a tab or a newline, never yields  *)
(* a value token.                                                            *)
C20_Tiling ==
    /\ [](/\ NTok >= 1 => tokens[1].lexpos = 0
          /\ \A i \in 1..NTok :
                /\ Len(tokens[i].lexeme) >= 1
                /\ tokens[i].lexeme =
                      Slice(lexdata, tokens[i].lexpos,
                            tokens[i].lexpos + Len(tokens[i].lexeme))
                /\ i < NTok
                      => tokens[i + 1].lexpos
                            = tokens[i].lexpos + Len(tokens[i].lexeme))
    /\ [][(/\ lexstate \in ExpectValue
           /\ lexpos < Len(lexdata)
           /\ Cur \in {TABC, NL}) => ~Emitted]_vars

\* A tab directly followed by a tab was met after four tokens that tile the
\* text before it: the request raised and no token was added.
C20_Witness ==
    /\ outcome = "IllegalCharacter"
    /\ lexstate = "c2"
    /\ NTok = 4
    /\ tokens[4].type = "TAB"
    /\ tokens[4].lexpos + 1 = lexpos
    /\ Cur = TABC

(* C17: BaseSentenceElement.is_valid() returns true for every instance,      *)
(* whatever its form and misc are (each absent or any string), and           *)
(* construction stores the given form and misc unchanged.                    *)
C17_AlwaysValid ==
    /\ [](element.made /\ element.asked => element.valid = TRUE)
    /\ [][(~element.made /\ element'.made)
             => /\ element'.self.form = element'.given.form
                /\ element'.self.misc = element'.given.misc]_vars
    /\ [][(element.made /\ element'.asked /\ element'.self = element.self)
             => element'.valid = TRUE]_vars

\* An element built with a form and no misc, whose form was then removed and
\* whose misc was set, has been asked and has answered.
C17_Witness ==
    /\ element.made
    /\ element.given = [form |-> StrV(<<"F", "o", "o">>), misc |-> None]
    /\ element.self = [form |-> None, misc |-> StrV(<<>>)]
    /\ element.asked
    /\ element.valid

\* The token requests instance i has answered.
Requests(i) == Len(tokens[i]) + nraised[i] + (IF outcome[i] = "eof" THEN 1 ELSE 0)

\* An instance driven alone over `text`, after n token requests.
RECURSIVE Alone(_, _)
Alone(text, n) == IF n = 0 THEN Built(text) ELSE token(Alone(text, n - 1))

(* C15: lexer instances share no mutable state.  When two instances from     *)
(* build() are driven over their own inputs in any interleaving of token     *)
(* requests, each produces the tokens and errors it produces when driven     *)
(* alone; a request to one instance never changes the tab counter, state or  *)
(* line number of the other.                                                 *)
C15_NoSharedState ==
    /\ [](\A i \in 1..2 : Instance(i) = Alone(lexdata[i], Requests(i)))
    /\ [][\A i \in 1..2 :
             Requests(i)' = Requests(i)
                => /\ tab_count'[Holder(i)] = tab_count[Holder(i)]
                   /\ lexstate'[i] = lexstate[i]
                   /\ lineno'[i] = lineno[i]
                   /\ tokens'[i] = tokens[i]
                   /\ error'[i] = error[i]]_vars

\* The first instance has finished a row and read its newline while the
\* second, two tabs into its own row, has raised: 0 tabs here, 2 there.
C15_Witness ==
    /\ lineno[1] = 2
    /\ lexstate[1] = "INITIAL"
    /\ tab_count[Holder(1)] = 0
    /\ Len(tokens[1]) = 20
    /\ lexstate[2] = "c2"
    /\ tab_count[Holder(2)] = 2
    /\ outcome[2] = "IllegalCharacter"
    /\ lineno[2] = 1

====
